---- MODULE Spec2Model ----
(***************************************************************************)
(* Piazza: a Django REST API in which users create time-bounded posts      *)
(* under fixed topics and other users rate or comment on them until the    *)
(* post expires.                                                           *)
(*                                                                         *)
(* The state is the database (posts with their topic associations,         *)
(* ratings, comments), the wall clock read through timezone.now(), the     *)
(* requests that have passed serializer.is_valid() and have not finished   *)
(* serializer.save() yet, and the last response sent.  A handler is cut    *)
(* where it reads the clock or the database again: is_valid() is one       *)
(* step, save() the next (one step per topics.add for a post).             *)
(***************************************************************************)
EXTENDS Integers, Sequences, FiniteSets, Bags

\* ------------------------------------------------------------------ bounds
\* The clock runs from 0 to MaxTime.
MaxTime == 2
\* The database holds at most MaxRows rows (posts, ratings and comments; a
\* request that passed is_valid() counts for the row it will insert), of
\* which at most MaxPosts are posts.
MaxRows == 3
MaxPosts == 2
\* At most MaxInflight requests are between is_valid() and the end of save().
MaxInflight == 2
NumUsers == 2

Users == 1..NumUsers

\* The users who send post requests (every user rates and comments).
Authors == {1}

\* The expiry_date values a post request carries.
ExpiryInputs == 0..(MaxTime - 1)

\* The post_pk of a ratings or comments url (the post may not exist).
PostPks == 1..MaxPosts

\* Topic.TYPES: the four topics that exist.
TYPES == {"politics", "health", "sport", "tech"}

\* Rating.Rate: the values a post may be rated with.
Rate == {"LIKE", "DISLIKE"}

\* The "topics" lists a post request carries: none, one or two valid topics,
\* and a topic that is not in the topics table.
TopicInputs == {{}, {"tech"}, {"tech", "health"}, {"news"}}

\* The topic_pk of a listing url, and its query params ("" is an absent or
\* unrecognised param).
TopicPks == {"tech", "health"}
StatusParams == {"", "live", "expired"}
InterestParams == {"", "highest", "lowest"}

VARIABLES
    now,       \* timezone.now()
    posts,     \* Post rows, by primary key (insertion order)
    ratings,   \* Rating rows, by primary key
    comments,  \* Comment rows, by primary key
    inflight,  \* requests between is_valid() and the end of save(): a bag
    resp       \* the last response sent

vars == <<now, posts, ratings, comments, inflight, resp>>

\* ----------------------------------------------------------------- records
Request(kind, pc, user, post, rating, topics, expiry_date) ==
    [kind |-> kind, pc |-> pc, user |-> user, post |-> post, rating |-> rating,
     topics |-> topics, expiry_date |-> expiry_date]

\* A response: its status code, the reason of an error ("ok" otherwise), the
\* requesting user and the post for a write, the posts listed for a listing.
Response(kind, status, reason, user, post, result) ==
    [kind |-> kind, status |-> status, reason |-> reason, user |-> user,
     post |-> post, result |-> result]

NoResponse == Response("none", 0, "", 0, 0, {})

\* The rows the database holds or is about to hold.
Rows ==
    Len(posts) + Len(ratings) + Len(comments)
    + BagCardinality([r \in {x \in BagToSet(inflight) : x.pc # "topics"} |-> inflight[r]])

\* The posts the database holds or is about to hold.
PostRows ==
    Len(posts)
    + BagCardinality([r \in {x \in BagToSet(inflight) : x.pc = "insert"} |-> inflight[r]])

\* A new request is taken while the bounds leave room for its row.
Room == BagCardinality(inflight) < MaxInflight /\ Rows < MaxRows

Take(r) == inflight (-) SetToBag({r})
Put(r) == inflight (+) SetToBag({r})

\* ------------------------------------------------------- PostSerializer reads
\* get_status with the comparison the other way round.
get_status_flipped(obj, t) ==
    IF obj.expiry_date > t THEN "Expired" ELSE "Live"

\* PostSerializer.get_status at clock value t.
get_status(obj, t) ==
    IF obj.expiry_date < t THEN "Expired" ELSE "Live"

get_likes(pk) ==
    Cardinality({i \in DOMAIN ratings : ratings[i].post = pk /\ ratings[i].rating = "LIKE"})

get_dislikes(pk) ==
    Cardinality({i \in DOMAIN ratings : ratings[i].post = pk /\ ratings[i].rating = "DISLIKE"})

\* ------------------------------------------------------------ RatingSerializer
\* RatingSerializer.validate without the check of the post's owner.
RatingSerializer_validate_no_owner(user, post_pk) ==
    IF post_pk \notin DOMAIN posts THEN "DoesNotExist"
    ELSE IF posts[post_pk].expiry_date < now THEN "expired"
    ELSE IF Cardinality({i \in DOMAIN ratings :
                ratings[i].post = post_pk /\ ratings[i].user = user}) # 0
         THEN "already_rated"
    ELSE "ok"

\* RatingSerializer.validate without the check of the expiry date.
RatingSerializer_validate_no_expiry(user, post_pk) ==
    IF post_pk \notin DOMAIN posts THEN "DoesNotExist"
    ELSE IF user = posts[post_pk].owner THEN "own_post"
    ELSE IF Cardinality({i \in DOMAIN ratings :
                ratings[i].post = post_pk /\ ratings[i].user = user}) # 0
         THEN "already_rated"
    ELSE "ok"

\* RatingSerializer.validate with the expiry comparison the other way round.
RatingSerializer_validate_flipped(user, post_pk) ==
    IF post_pk \notin DOMAIN posts THEN "DoesNotExist"
    ELSE IF user = posts[post_pk].owner THEN "own_post"
    ELSE IF posts[post_pk].expiry_date > now THEN "expired"
    ELSE IF Cardinality({i \in DOMAIN ratings :
                ratings[i].post = post_pk /\ ratings[i].user = user}) # 0
         THEN "already_rated"
    ELSE "ok"

\* RatingSerializer.validate with the check for an earlier rating before the
\* check of the expiry date.
RatingSerializer_validate_rated_first(user, post_pk) ==
    IF post_pk \notin DOMAIN posts THEN "DoesNotExist"
    ELSE IF user = posts[post_pk].owner THEN "own_post"
    ELSE IF Cardinality({i \in DOMAIN ratings :
                ratings[i].post = post_pk /\ ratings[i].user = user}) # 0
         THEN "already_rated"
    ELSE IF posts[post_pk].expiry_date < now THEN "expired"
    ELSE "ok"

\* RatingSerializer.validate without the check for an earlier rating.
RatingSerializer_validate_no_rated(user, post_pk) ==
    IF post_pk \notin DOMAIN posts THEN "DoesNotExist"
    ELSE IF user = posts[post_pk].owner THEN "own_post"
    ELSE IF posts[post_pk].expiry_date < now THEN "expired"
    ELSE "ok"

\* RatingSerializer.validate: the reason it raises, or "ok".  Post.objects.get
\* raises Post.DoesNotExist, which nothing catches.
RatingSerializer_validate(user, post_pk) ==
    IF post_pk \notin DOMAIN posts THEN "DoesNotExist"
    ELSE IF user = posts[post_pk].owner THEN "own_post"
    ELSE IF posts[post_pk].expiry_date < now THEN "expired"
    ELSE IF Cardinality({i \in DOMAIN ratings :
                ratings[i].post = post_pk /\ ratings[i].user = user}) # 0
         THEN "already_rated"
    ELSE "ok"

\* RatingSerializer.create with the subtraction the other way round.
RatingSerializer_create_negated(user, post_pk, rating) ==
    [user |-> user, post |-> post_pk, rating |-> rating,
     time_left_until_post_expiry |-> now - posts[post_pk].expiry_date]

\* RatingSerializer.create: the row it inserts.
RatingSerializer_create(user, post_pk, rating) ==
    [user |-> user, post |-> post_pk, rating |-> rating,
     time_left_until_post_expiry |-> posts[post_pk].expiry_date - now]

StatusOf(reason) ==
    IF reason = "ok" THEN 201 ELSE IF reason = "DoesNotExist" THEN 500 ELSE 400

\* RatingViewSet.create up to serializer.is_valid(raise_exception=True).
RatingIsValid(user, post_pk, rating) ==
    /\ Room
    /\ LET reason == RatingSerializer_validate(user, post_pk) IN
         IF reason = "ok"
         THEN /\ inflight' = Put(Request("rating", "save", user, post_pk, rating, {}, 0))
              /\ UNCHANGED resp
         ELSE /\ resp' = Response("rating", StatusOf(reason), reason, user, post_pk,
                                  {})
              /\ UNCHANGED inflight
    /\ UNCHANGED <<now, posts, ratings, comments>>

\* RatingViewSet.create from serializer.save() to the response.
RatingSave(r) ==
    /\ r.kind = "rating"
    /\ ratings' = Append(ratings, RatingSerializer_create(r.user, r.post, r.rating))
    /\ inflight' = Take(r)
    /\ resp' = Response("rating", 201, "ok", r.user, r.post, {})
    /\ UNCHANGED <<now, posts, comments>>

\* ----------------------------------------------------------- CommentSerializer
\* CommentSerializer.validate with one comment per post at most.
CommentSerializer_validate_one_comment(post_pk) ==
    IF post_pk \notin DOMAIN posts THEN "DoesNotExist"
    ELSE IF posts[post_pk].expiry_date < now THEN "expired"
    ELSE IF \E i \in DOMAIN comments : comments[i].post = post_pk THEN "already_commented"
    ELSE "ok"

\* CommentSerializer.validate: the reason it raises, or "ok".
CommentSerializer_validate(post_pk) ==
    IF post_pk \notin DOMAIN posts THEN "DoesNotExist"
    ELSE IF posts[post_pk].expiry_date < now THEN "expired"
    ELSE "ok"

\* CommentSerializer.create: the row it inserts.
CommentSerializer_create(user, post_pk) ==
    [user |-> user, post |-> post_pk,
     time_left_until_post_expiry |-> posts[post_pk].expiry_date - now]

\* CommentViewSet.create up to serializer.is_valid(raise_exception=True).
CommentIsValid(user, post_pk) ==
    /\ Room
    /\ LET reason == CommentSerializer_validate(post_pk) IN
         IF reason = "ok"
         THEN /\ inflight' = Put(Request("comment", "save", user, post_pk, "", {}, 0))
              /\ UNCHANGED resp
         ELSE /\ resp' = Response("comment", StatusOf(reason), reason, user, post_pk,
                                  {})
              /\ UNCHANGED inflight
    /\ UNCHANGED <<now, posts, ratings, comments>>

\* CommentViewSet.create from serializer.save() to the response.
CommentSave(r) ==
    /\ r.kind = "comment"
    /\ comments' = Append(comments, CommentSerializer_create(r.user, r.post))
    /\ inflight' = Take(r)
    /\ resp' = Response("comment", 201, "ok", r.user, r.post, {})
    /\ UNCHANGED <<now, posts, ratings>>

\* -------------------------------------------------------------- PostSerializer
\* PostSerializer.validate_expiry_date: whether it raises.
validate_expiry_date(value) == value < now

\* The "topics" field with an empty list allowed (allow_empty).
validate_topics_allow_empty(topics) == ~(topics \subseteq TYPES)

\* The "topics" field of PostSerializer (a required many-to-many of Topic
\* primary keys): whether it raises.
validate_topics(topics) == topics = {} \/ ~(topics \subseteq TYPES)

\* The field errors of PostSerializer.is_valid(), or "ok".
PostSerializer_validate(topics, expiry_date) ==
    IF validate_topics(topics) /\ validate_expiry_date(expiry_date)
    THEN "topics+expiry_date"
    ELSE IF validate_topics(topics) THEN "topics"
    ELSE IF validate_expiry_date(expiry_date) THEN "expiry_date"
    ELSE "ok"

\* The row Post.objects.create inserts in PostSerializer.create: date_created
\* is auto_now_add, and the row has no topics yet.
PostSerializer_create(user, expiry_date) ==
    [owner |-> user, date_created |-> now, expiry_date |-> expiry_date, topics |-> {}]

\* PostViewSet.create (ModelViewSet) up to serializer.is_valid().
PostIsValid(user, topics, expiry_date) ==
    /\ Room /\ PostRows < MaxPosts
    /\ LET reason == PostSerializer_validate(topics, expiry_date) IN
         IF reason = "ok"
         THEN /\ inflight' = Put(Request("post", "insert", user, 0, "", topics, expiry_date))
              /\ UNCHANGED resp
         ELSE /\ resp' = Response("post", 400, reason, user, 0, {})
              /\ UNCHANGED inflight
    /\ UNCHANGED <<now, posts, ratings, comments>>

\* PostSerializer.create: Post.objects.create(owner=user, ...).
PostSave(r) ==
    /\ r.kind = "post" /\ r.pc = "insert"
    /\ posts' = Append(posts, PostSerializer_create(r.user, r.expiry_date))
    /\ inflight' = Take(r) (+) SetToBag({[r EXCEPT !.pc = "topics", !.post = Len(posts) + 1]})
    /\ UNCHANGED <<now, ratings, comments, resp>>

\* PostSerializer.create: one post.topics.add(topic) of the loop; after the
\* last one the post is returned and the response sent.
PostTopicsAdd(r, topic) ==
    /\ r.kind = "post" /\ r.pc = "topics"
    /\ topic \in r.topics
    /\ posts' = [posts EXCEPT ![r.post].topics = @ \cup {topic}]
    /\ IF r.topics = {topic}
       THEN /\ inflight' = Take(r)
            /\ resp' = Response("post", 201, "ok", r.user, r.post, {})
       ELSE /\ inflight' = Take(r) (+) SetToBag({[r EXCEPT !.topics = @ \ {topic}]})
            /\ UNCHANGED resp
    /\ UNCHANGED <<now, ratings, comments>>

\* ----------------------------------------------------------------- PostViewSet
\* Count('rating'): the number of Rating rows of a post.
num_ratings(pk) == Cardinality({i \in DOMAIN ratings : ratings[i].post = pk})

\* Post.objects.filter(topics=topic_pk)
filter_topics(topic_pk) == {pk \in DOMAIN posts : topic_pk \in posts[pk].topics}

\* The status param with expiry_date__lte for expired and __gt for live.
filter_status_lte(qs, status) ==
    IF status = "expired" THEN {pk \in qs : posts[pk].expiry_date <= now}
    ELSE IF status = "live" THEN {pk \in qs : posts[pk].expiry_date > now}
    ELSE qs

\* The status param with expiry_date__gt for live.
filter_status_gt(qs, status) ==
    IF status = "expired" THEN {pk \in qs : posts[pk].expiry_date < now}
    ELSE IF status = "live" THEN {pk \in qs : posts[pk].expiry_date > now}
    ELSE qs

\* The status param of get_queryset, on queryset qs.
filter_status(qs, status) ==
    IF status = "expired" THEN {pk \in qs : posts[pk].expiry_date < now}
    ELSE IF status = "live" THEN {pk \in qs : posts[pk].expiry_date >= now}
    ELSE qs

\* The interest param without the [:1] slice.
filter_interest_no_slice(qs, interest) == {qs}

\* The interest param with the two orderings swapped.
filter_interest_swapped(qs, interest) ==
    IF interest = "lowest"
    THEN IF qs = {} THEN {{}}
         ELSE {{pk} : pk \in {q \in qs : \A o \in qs : num_ratings(q) >= num_ratings(o)}}
    ELSE IF interest = "highest"
    THEN IF qs = {} THEN {{}}
         ELSE {{pk} : pk \in {q \in qs : \A o \in qs : num_ratings(q) <= num_ratings(o)}}
    ELSE {qs}

\* The interest param of get_queryset, on queryset qs: the results
\* order_by(...)[:1] may give.  The ordering names num_ratings alone, and Post
\* has no Meta.ordering, so which of the rows with equal num_ratings comes
\* first is the database's choice.
filter_interest(qs, interest) ==
    IF interest = "highest"
    THEN IF qs = {} THEN {{}}
         ELSE {{pk} : pk \in {q \in qs : \A o \in qs : num_ratings(q) >= num_ratings(o)}}
    ELSE IF interest = "lowest"
    THEN IF qs = {} THEN {{}}
         ELSE {{pk} : pk \in {q \in qs : \A o \in qs : num_ratings(q) <= num_ratings(o)}}
    ELSE {qs}

\* get_queryset with the interest param applied before the status param.
get_queryset_interest_first(topic_pk, status, interest) ==
    {filter_status(qs, status) : qs \in filter_interest(filter_topics(topic_pk), interest)}

\* PostViewSet.get_queryset: the results it may give.
get_queryset(topic_pk, status, interest) ==
    filter_interest(filter_status(filter_topics(topic_pk), status), interest)

\* PostViewSet.list: GET topics/<topic_pk>/posts/?status=..&interest=..
PostList(topic_pk, status, interest) ==
    /\ \E result \in get_queryset(topic_pk, status, interest) :
         resp' = Response("list", 200, "ok", 0, 0, result)
    /\ UNCHANGED <<now, posts, ratings, comments, inflight>>

\* ----------------------------------------------------------------- the clock
Tick ==
    /\ now < MaxTime
    /\ now' = now + 1
    /\ UNCHANGED <<posts, ratings, comments, inflight, resp>>

Init ==
    /\ now = 0
    /\ posts = <<>>
    /\ ratings = <<>>
    /\ comments = <<>>
    /\ inflight = EmptyBag
    /\ resp = NoResponse

Next ==
    \/ Tick
    \/ \E u \in Users, p \in PostPks, v \in Rate : RatingIsValid(u, p, v)
    \/ \E r \in BagToSet(inflight) : RatingSave(r)
    \/ \E u \in Users, p \in PostPks : CommentIsValid(u, p)
    \/ \E r \in BagToSet(inflight) : CommentSave(r)
    \/ \E u \in Authors, ts \in TopicInputs, e \in ExpiryInputs : PostIsValid(u, ts, e)
    \/ \E r \in BagToSet(inflight) : PostSave(r)
    \/ \E r \in BagToSet(inflight) : \E t \in r.topics : PostTopicsAdd(r, t)
    \/ \E t \in TopicPks, s \in StatusParams, i \in InterestParams : PostList(t, s, i)

Spec == Init /\ [][Next]_vars

\* ------------------------------------------------------------------- helpers
Expiry(pk) == posts[pk].expiry_date

RatingsBy(user, pk) ==
    {i \in DOMAIN ratings : ratings[i].post = pk /\ ratings[i].user = user}

\* The request a rating (comment) becomes once is_valid() has passed.
RatingRequest(user, pk, rating) == Request("rating", "save", user, pk, rating, {}, 0)
CommentRequest(user, pk) == Request("comment", "save", user, pk, "", {}, 0)

\* --------------------------------------------------------------------- C1
\* C1: for every (post, user) pair at most one Rating exists in every
\* reachable state, whatever the interleaving of the validate and create
\* steps of concurrent rating requests.
C1_OneRatingPerUserAndPost ==
    \A i, j \in DOMAIN ratings :
        (ratings[i].post = ratings[j].post /\ ratings[i].user = ratings[j].user)
            => i = j

\* --------------------------------------------------------------------- C2
\* C2: no Rating, stored or validated and about to be stored, has the owner
\* of the rated post as its author.
C2_NoRatingByOwner ==
    /\ \A i \in DOMAIN ratings : ratings[i].user # posts[ratings[i].post].owner
    /\ \A r \in BagToSet(inflight) :
         r.kind = "rating" => r.user # posts[r.post].owner

\* The owner's rating of their own post was just rejected, after the post
\* expired and while another user's rating of it exists.
C2_Witness ==
    /\ resp.kind = "rating" /\ resp.status = 400 /\ resp.reason = "own_post"
    /\ resp.post \in DOMAIN posts
    /\ resp.user = posts[resp.post].owner
    /\ Expiry(resp.post) < now
    /\ \E i \in DOMAIN ratings : ratings[i].post = resp.post

\* --------------------------------------------------------------------- C3
\* C3 as stated: a rating or comment request on an existing post whose
\* validation reads a clock value now >= expiry_date is rejected as expired
\* and records nothing (for a rating, by a user other than the owner, whose
\* rating the check of the owner rejects first).
C3_ExpiredAtOrAfterExpiry ==
    [][\A u \in Users, pk \in DOMAIN posts :
         now >= Expiry(pk) =>
           /\ \A v \in Rate :
                (RatingIsValid(u, pk, v) /\ u # posts[pk].owner) =>
                  /\ resp'.status = 400 /\ resp'.reason = "expired"
                  /\ ratings' = ratings /\ inflight' = inflight
           /\ CommentIsValid(u, pk) =>
                /\ resp'.status = 400 /\ resp'.reason = "expired"
                /\ comments' = comments /\ inflight' = inflight]_vars

\* C3 amended: with now > expiry_date the request is rejected and records
\* nothing; the reason is "expired", except that the owner's rating of their
\* own post is rejected as a rating of one's own post.
C3_RejectedAfterExpiry ==
    [][\A u \in Users, pk \in DOMAIN posts :
         now > Expiry(pk) =>
           /\ \A v \in Rate :
                RatingIsValid(u, pk, v) =>
                  /\ resp'.kind = "rating" /\ resp'.status = 400
                  /\ resp'.reason = IF u = posts[pk].owner THEN "own_post" ELSE "expired"
                  /\ ratings' = ratings /\ inflight' = inflight
           /\ CommentIsValid(u, pk) =>
                /\ resp'.kind = "comment" /\ resp'.status = 400
                /\ resp'.reason = "expired"
                /\ comments' = comments /\ inflight' = inflight]_vars

\* A rating by a user who is not the owner was just rejected as expired, on
\* a post that nobody rated.
C3_Witness ==
    /\ resp.kind = "rating" /\ resp.status = 400 /\ resp.reason = "expired"
    /\ resp.post \in DOMAIN posts
    /\ resp.user # posts[resp.post].owner
    /\ Expiry(resp.post) < now
    /\ ratings = <<>> /\ inflight = EmptyBag

\* --------------------------------------------------------------------- C4
\* C4: with now < expiry_date, a rating request by a user who is not the
\* owner and has no rating of the post passes validation, and so does a
\* comment request by any user; the save of a request that passed validation
\* inserts exactly one row, for that user and post, and answers 201.
C4_EligibleSucceeds ==
    [][/\ \A u \in Users, pk \in DOMAIN posts :
            now < Expiry(pk) =>
              /\ \A v \in Rate :
                   (RatingIsValid(u, pk, v) /\ u # posts[pk].owner /\ RatingsBy(u, pk) = {})
                      => /\ inflight' = inflight (+) SetToBag({RatingRequest(u, pk, v)})
                         /\ resp' = resp
              /\ CommentIsValid(u, pk)
                    => /\ inflight' = inflight (+) SetToBag({CommentRequest(u, pk)})
                       /\ resp' = resp
       /\ \A r \in BagToSet(inflight) :
            /\ RatingSave(r) =>
                 /\ Len(ratings') = Len(ratings) + 1
                 /\ SubSeq(ratings', 1, Len(ratings)) = ratings
                 /\ ratings'[Len(ratings')].user = r.user
                 /\ ratings'[Len(ratings')].post = r.post
                 /\ ratings'[Len(ratings')].rating = r.rating
                 /\ resp'.status = 201
            /\ CommentSave(r) =>
                 /\ Len(comments') = Len(comments) + 1
                 /\ SubSeq(comments', 1, Len(comments)) = comments
                 /\ comments'[Len(comments')].user = r.user
                 /\ comments'[Len(comments')].post = r.post
                 /\ resp'.status = 201]_vars

\* A rating cast before the post's expiry was just stored and answered 201,
\* and a comment on the same post is stored too.
C4_Witness ==
    /\ resp.kind = "rating" /\ resp.status = 201
    /\ \E i \in DOMAIN ratings :
         /\ ratings[i].post = resp.post /\ ratings[i].user = resp.user
         /\ ratings[i].time_left_until_post_expiry > 0
    /\ \E c \in DOMAIN comments : comments[c].post = resp.post

\* --------------------------------------------------------------------- C5
\* C5: the remaining time of a Rating or Comment is the post's expiry_date
\* minus the clock value at which the row is stored, and every step leaves
\* the rows already stored as they are.
C5_RemainingFrozen ==
    [][/\ Len(ratings') >= Len(ratings)
       /\ \A i \in DOMAIN ratings : ratings'[i] = ratings[i]
       /\ \A i \in DOMAIN ratings' \ DOMAIN ratings :
            ratings'[i].time_left_until_post_expiry = Expiry(ratings'[i].post) - now
       /\ Len(comments') >= Len(comments)
       /\ \A i \in DOMAIN comments : comments'[i] = comments[i]
       /\ \A i \in DOMAIN comments' \ DOMAIN comments :
            comments'[i].time_left_until_post_expiry = Expiry(comments'[i].post) - now]_vars

\* A rating stored with one unit of time left is still stored with it when
\* the clock is past the post's expiry, after a listing of the topic.
C5_Witness ==
    /\ resp.kind = "list"
    /\ \E i \in DOMAIN ratings :
         /\ ratings[i].time_left_until_post_expiry = 1
         /\ Expiry(ratings[i].post) - now < 0
         /\ ratings[i].post \in resp.result

\* --------------------------------------------------------------------- C6
Total(pk) == get_likes(pk) + get_dislikes(pk)

\* C6 as stated: the status of a post is Live iff now < expiry_date, and the
\* status=live and status=expired filters list the posts by that rule.
C6_LiveIffBeforeExpiry ==
    /\ \A pk \in DOMAIN posts :
         get_status(posts[pk], now) = "Live" <=> now < Expiry(pk)
    /\ \A t \in TopicPks :
         /\ get_queryset(t, "live", "") =
              {{pk \in filter_topics(t) : now < Expiry(pk)}}
         /\ get_queryset(t, "expired", "") =
              {{pk \in filter_topics(t) : ~(now < Expiry(pk))}}

\* C6 amended: the status of a post is Live iff now <= expiry_date and
\* Expired otherwise (a post whose expiry equals now is Live); the status=live
\* filter lists the posts of the topic whose status is Live, the
\* status=expired filter those whose status is Expired.
C6_LiveUntilExpiry ==
    /\ \A pk \in DOMAIN posts :
         /\ get_status(posts[pk], now) = "Live" <=> now <= Expiry(pk)
         /\ get_status(posts[pk], now) = "Expired" <=> now > Expiry(pk)
    /\ \A t \in TopicPks :
         /\ get_queryset(t, "live", "") =
              {{pk \in filter_topics(t) : get_status(posts[pk], now) = "Live"}}
         /\ get_queryset(t, "expired", "") =
              {{pk \in filter_topics(t) : get_status(posts[pk], now) = "Expired"}}

\* A status=live listing of tech was just answered with a post whose expiry
\* is now, and left out another post of the topic.
C6_Witness ==
    /\ resp.kind = "list"
    /\ resp.result \in get_queryset("tech", "live", "")
    /\ resp.result # filter_topics("tech")
    /\ \E pk \in resp.result : Expiry(pk) = now /\ get_status(posts[pk], now) = "Live"

\* --------------------------------------------------------------------- C7
\* C7: a post that is Expired stays a post and stays Expired in every step.
C7_ExpiredStaysExpired ==
    [][\A pk \in DOMAIN posts :
         get_status(posts[pk], now) = "Expired" =>
            /\ pk \in DOMAIN posts'
            /\ get_status(posts'[pk], now') = "Expired"]_vars

\* A post that expired before the last tick of the clock is Expired, and a
\* comment on it was just rejected as expired.
C7_Witness ==
    /\ resp.kind = "comment" /\ resp.reason = "expired"
    /\ resp.post \in DOMAIN posts
    /\ Expiry(resp.post) + 1 < now
    /\ get_status(posts[resp.post], now) = "Expired"

\* --------------------------------------------------------------------- C8
\* The earliest-created post among those of qs with the greatest (least)
\* number of ratings: primary keys are given in the order of creation.
EarliestExtreme(qs, interest) ==
    LET best == IF interest = "highest"
                THEN {q \in qs : \A o \in qs : Total(q) >= Total(o)}
                ELSE {q \in qs : \A o \in qs : Total(q) <= Total(o)}
    IN  IF qs = {} THEN {} ELSE {CHOOSE q \in best : \A o \in best : q <= o}

\* C8 as stated: an interest=highest (lowest) listing gives the
\* earliest-created of the posts that tie for the greatest (least) number of
\* ratings, and nothing when there is no post to choose from.
C8_TieGivesEarliest ==
    \A t \in TopicPks, s \in StatusParams, i \in {"highest", "lowest"} :
        get_queryset(t, s, i) = {EarliestExtreme(filter_status(filter_topics(t), s), i)}

\* The posts of qs that tie for the greatest (least) number of ratings.
Tied(qs, interest) ==
    IF interest = "highest"
    THEN {q \in qs : \A o \in qs : Total(q) >= Total(o)}
    ELSE {q \in qs : \A o \in qs : Total(q) <= Total(o)}

\* C8 amended: an interest=highest (lowest) listing gives exactly one of the
\* posts that tie for the greatest (least) number of ratings, not always the
\* earliest-created one, and nothing when there is no post to choose from.
C8_TieGivesOneOfTied ==
    \A t \in TopicPks, s \in StatusParams, i \in {"highest", "lowest"} :
        LET cand == filter_status(filter_topics(t), s) IN
        \A result \in get_queryset(t, s, i) :
            IF cand = {} THEN result = {}
            ELSE \E pk \in Tied(cand, i) : result = {pk}

\* An interest=lowest listing of tech was just answered with the later
\* created of two posts that have the same number of ratings.
C8_Witness ==
    /\ resp.kind = "list"
    /\ resp.result \in get_queryset("tech", "", "lowest")
    /\ filter_topics("tech") = {1, 2}
    /\ Total(1) = Total(2)
    /\ resp.result = {2}

\* --------------------------------------------------------------------- C9
\* C9: an interest=highest (lowest) listing gives at most one post, exactly
\* one when the topic has a post that passes the status filter, and that post
\* has at least (at most) as many likes plus dislikes as every such post.
C9_ExtremeOfCandidates ==
    \A t \in TopicPks, s \in StatusParams :
        LET cand == filter_status(filter_topics(t), s) IN
        /\ \A result \in get_queryset(t, s, "highest") :
             /\ result \subseteq cand
             /\ Cardinality(result) <= 1
             /\ cand # {} => Cardinality(result) = 1
             /\ \A pk \in result, o \in cand : Total(pk) >= Total(o)
        /\ \A result \in get_queryset(t, s, "lowest") :
             /\ result \subseteq cand
             /\ Cardinality(result) <= 1
             /\ cand # {} => Cardinality(result) = 1
             /\ \A pk \in result, o \in cand : Total(pk) <= Total(o)

\* An interest=highest listing of tech was just answered with a post that
\* has more ratings than another post of the topic.
C9_Witness ==
    /\ resp.kind = "list"
    /\ resp.result \in get_queryset("tech", "", "highest")
    /\ \E pk \in resp.result, o \in filter_topics("tech") : Total(pk) > Total(o)

\* -------------------------------------------------------------------- C10
\* The posts of topic t whose status is st.
WithStatus(t, st) == {pk \in filter_topics(t) : get_status(posts[pk], now) = st}

\* C10: with a status and an interest param, the listing gives a post of
\* that status, which is the extreme among the topic's posts of that status
\* only, and gives one whenever the topic has a post of that status.
C10_StatusBeforeInterest ==
    \A t \in TopicPks :
        /\ \A result \in get_queryset(t, "live", "highest") :
             /\ result \subseteq WithStatus(t, "Live")
             /\ WithStatus(t, "Live") # {} => result # {}
             /\ \A pk \in result, o \in WithStatus(t, "Live") : Total(pk) >= Total(o)
        /\ \A result \in get_queryset(t, "live", "lowest") :
             /\ result \subseteq WithStatus(t, "Live")
             /\ WithStatus(t, "Live") # {} => result # {}
             /\ \A pk \in result, o \in WithStatus(t, "Live") : Total(pk) <= Total(o)
        /\ \A result \in get_queryset(t, "expired", "highest") :
             /\ result \subseteq WithStatus(t, "Expired")
             /\ WithStatus(t, "Expired") # {} => result # {}
             /\ \A pk \in result, o \in WithStatus(t, "Expired") : Total(pk) >= Total(o)
        /\ \A result \in get_queryset(t, "expired", "lowest") :
             /\ result \subseteq WithStatus(t, "Expired")
             /\ WithStatus(t, "Expired") # {} => result # {}
             /\ \A pk \in result, o \in WithStatus(t, "Expired") : Total(pk) <= Total(o)

\* A status=live, interest=highest listing of tech was just answered with a
\* Live post while an Expired post of the topic has more ratings.
C10_Witness ==
    /\ resp.kind = "list"
    /\ resp.result \in get_queryset("tech", "live", "highest")
    /\ \E pk \in resp.result :
         /\ get_status(posts[pk], now) = "Live"
         /\ \E o \in WithStatus("tech", "Expired") : Total(o) > Total(pk)

\* -------------------------------------------------------------------- C11
\* The first check of a rating request that fails, in the order: the post
\* exists, the user is not its owner, the post is not Expired, the user has
\* no rating of it.
FirstFailing(user, pk) ==
    IF pk \notin DOMAIN posts THEN "DoesNotExist"
    ELSE IF user = posts[pk].owner THEN "own_post"
    ELSE IF get_status(posts[pk], now) = "Expired" THEN "expired"
    ELSE IF RatingsBy(user, pk) # {} THEN "already_rated"
    ELSE "ok"

\* C11: a rating request that is rejected is answered with the first failing
\* check in the order post exists, own post, expired, already rated: the
\* owner's rating of their own Expired post is rejected as a rating of one's
\* own post, and a second rating of a post that has Expired as expired.
C11_FirstFailingCheck ==
    [][\A u \in Users, pk \in PostPks, v \in Rate :
         (RatingIsValid(u, pk, v) /\ FirstFailing(u, pk) # "ok") =>
            /\ resp'.kind = "rating" /\ resp'.user = u /\ resp'.post = pk
            /\ resp'.reason = FirstFailing(u, pk)
            /\ (pk \in DOMAIN posts /\ Expiry(pk) < now /\ u = posts[pk].owner)
                  => resp'.reason = "own_post"
            /\ (pk \in DOMAIN posts /\ Expiry(pk) < now /\ u # posts[pk].owner
                  /\ RatingsBy(u, pk) # {})
                  => resp'.reason = "expired"]_vars

\* A rating by a user who rated the post before it expired was just rejected
\* as expired.
C11_Witness ==
    /\ resp.kind = "rating" /\ resp.status = 400 /\ resp.reason = "expired"
    /\ resp.post \in DOMAIN posts
    /\ Expiry(resp.post) < now
    /\ RatingsBy(resp.user, resp.post) # {}

\* -------------------------------------------------------------------- C12
\* C12 as stated: a post request with expiry_date <= now, with no topic or
\* with a topic that does not exist is rejected with a validation error and
\* stores no post.
C12_RejectsAtOrBeforeNow ==
    [][\A u \in Authors, ts \in TopicInputs, e \in ExpiryInputs :
         (PostIsValid(u, ts, e) /\ (e <= now \/ ts = {} \/ ~(ts \subseteq TYPES))) =>
            /\ resp'.kind = "post" /\ resp'.status = 400
            /\ posts' = posts /\ inflight' = inflight]_vars

\* C12 amended: a post request with expiry_date < now, with no topic or with
\* a topic that does not exist is rejected with a validation error and stores
\* no post; a request with expiry_date = now and valid topics is accepted.
C12_RejectsBeforeNow ==
    [][\A u \in Authors, ts \in TopicInputs, e \in ExpiryInputs :
         /\ (PostIsValid(u, ts, e) /\ (e < now \/ ts = {} \/ ~(ts \subseteq TYPES))) =>
               /\ resp'.kind = "post" /\ resp'.status = 400 /\ resp'.reason # "ok"
               /\ posts' = posts /\ inflight' = inflight
         /\ (PostIsValid(u, ts, e) /\ e = now /\ ts # {} /\ ts \subseteq TYPES) =>
               /\ inflight' = inflight (+) SetToBag({Request("post", "insert", u, 0, "", ts, e)})
               /\ resp' = resp]_vars

\* A post request with no topic and a past expiry_date was just rejected, and
\* no post is stored.
C12_Witness ==
    /\ resp.kind = "post" /\ resp.status = 400 /\ resp.reason = "topics+expiry_date"
    /\ posts = <<>> /\ inflight = EmptyBag

\* -------------------------------------------------------------------- C13
\* C13: in every reachable state every stored post has at least one topic
\* and one owner.
C13_PostHasTopicAndOwner ==
    \A pk \in DOMAIN posts :
        posts[pk].topics # {} /\ posts[pk].owner \in Users

\* -------------------------------------------------------------------- C14
\* C14: a rating request by a user who has a rating of the post, while the
\* post is Live, is rejected as already rated; and every step that answers a
\* rating, comment or post request with an error leaves the posts, ratings
\* and comments (so the likes and dislikes of every post) as they are.
C14_RejectionChangesNothing ==
    [][/\ \A u \in Users, pk \in DOMAIN posts, v \in Rate :
            (RatingIsValid(u, pk, v) /\ RatingsBy(u, pk) # {}
                /\ get_status(posts[pk], now) = "Live") =>
               /\ resp'.kind = "rating" /\ resp'.status = 400
               /\ resp'.reason = "already_rated"
               /\ ratings' = ratings
               /\ get_likes(pk)' = get_likes(pk)
               /\ get_dislikes(pk)' = get_dislikes(pk)
       /\ (resp' # resp /\ resp'.status \in {400, 500}) =>
               /\ posts' = posts /\ ratings' = ratings /\ comments' = comments
               /\ inflight' = inflight]_vars

\* A second rating by the same user of a post that is still Live was just
\* rejected as already rated.
C14_Witness ==
    /\ resp.kind = "rating" /\ resp.status = 400 /\ resp.reason = "already_rated"
    /\ resp.post \in DOMAIN posts
    /\ get_status(posts[resp.post], now) = "Live"
    /\ Cardinality(RatingsBy(resp.user, resp.post)) = 1

\* -------------------------------------------------------------------- C15
\* C15: a rating or comment request for a post that does not exist is
\* answered as not found (404) and records nothing.
C15_MissingPostNotFound ==
    [][\A u \in Users, pk \in PostPks \ DOMAIN posts :
         /\ \A v \in Rate :
              RatingIsValid(u, pk, v) =>
                 /\ resp'.status = 404
                 /\ ratings' = ratings /\ inflight' = inflight
         /\ CommentIsValid(u, pk) =>
              /\ resp'.status = 404
              /\ comments' = comments /\ inflight' = inflight]_vars

\* -------------------------------------------------------------------- C16
\* The comments of user on post pk.
CommentsBy(user, pk) ==
    {i \in DOMAIN comments : comments[i].post = pk /\ comments[i].user = user}

\* C16: while a post is Live a comment request of any user passes validation,
\* whether the user owns the post, has commented on it or has rated it, and
\* each comment request that is saved adds exactly one comment, of that user
\* on that post, and keeps the others.
C16_CommentsUnrestricted ==
    [][/\ \A u \in Users, pk \in DOMAIN posts :
            (CommentIsValid(u, pk) /\ get_status(posts[pk], now) = "Live") =>
               /\ inflight' = inflight (+) SetToBag({CommentRequest(u, pk)})
               /\ resp' = resp
       /\ \A r \in BagToSet(inflight) :
            CommentSave(r) =>
               /\ Len(comments') = Len(comments) + 1
               /\ SubSeq(comments', 1, Len(comments)) = comments
               /\ comments'[Len(comments')].user = r.user
               /\ comments'[Len(comments')].post = r.post
               /\ resp'.status = 201]_vars

\* The owner of a post has two comments on it, the second just saved.
C16_Witness ==
    /\ resp.kind = "comment" /\ resp.status = 201
    /\ resp.post \in DOMAIN posts
    /\ resp.user = posts[resp.post].owner
    /\ Cardinality(CommentsBy(resp.user, resp.post)) = 2

\* -------------------------------------------------------------------- C17
\* C17: the expiry_date of every stored post is later than its date_created.
C17_ExpiryAfterCreation ==
    \A pk \in DOMAIN posts : posts[pk].expiry_date > posts[pk].date_created

\* -------------------------------------------------------------------- C18
\* The posts a listing of topic t with status param st gives.
Listing(t, st) == UNION get_queryset(t, st, "")

\* The status=live and status=expired listings of t share no post and
\* together are the listing of t without a status param.
Partition(t) ==
    /\ Listing(t, "live") \cap Listing(t, "expired") = {}
    /\ Listing(t, "live") \cup Listing(t, "expired") = Listing(t, "")

\* C18: at every moment the status=live and status=expired listings of a
\* topic are disjoint and their union is the listing without a status param;
\* a post of the expired listing stays in it and out of the live one, and a
\* post of the live listing whose expiry_date the clock has passed is in the
\* expired listing and no longer in the live one.
C18_LiveExpiredPartition ==
    [][\A t \in TopicPks :
         /\ Partition(t) /\ Partition(t)'
         /\ \A pk \in Listing(t, "expired") :
              pk \in Listing(t, "expired")' /\ pk \notin Listing(t, "live")'
         /\ \A pk \in Listing(t, "live") :
              Expiry(pk) < now' =>
                 pk \in Listing(t, "expired")' /\ pk \notin Listing(t, "live")']_vars

\* A status=expired listing of tech just gave a post whose expiry_date the
\* clock has passed, while another post of tech is in the live listing.
C18_Witness ==
    /\ resp.kind = "list" /\ resp.result # {}
    /\ resp.result = Listing("tech", "expired")
    /\ Listing("tech", "live") # {}
    /\ Listing("tech", "") = DOMAIN posts

\* -------------------------------------------------------------------- C19
\* C19: the time_left_until_post_expiry of every stored rating and comment is
\* greater than zero.
C19_RemainingPositive ==
    /\ \A i \in DOMAIN ratings : ratings[i].time_left_until_post_expiry > 0
    /\ \A i \in DOMAIN comments : comments[i].time_left_until_post_expiry > 0

\* -------------------------------------------------------------------- C20
\* The number of comments on post pk.
NumComments(pk) == Cardinality({i \in DOMAIN comments : comments[i].post = pk})

\* No step removes or alters a stored post, rating or comment.
AppendOnly ==
    /\ DOMAIN posts \subseteq DOMAIN posts'
    /\ \A pk \in DOMAIN posts :
         /\ posts'[pk].owner = posts[pk].owner
         /\ posts'[pk].date_created = posts[pk].date_created
         /\ posts'[pk].expiry_date = posts[pk].expiry_date
         /\ posts[pk].topics \subseteq posts'[pk].topics
    /\ Len(ratings) <= Len(ratings')
    /\ SubSeq(ratings', 1, Len(ratings)) = ratings
    /\ Len(comments) <= Len(comments')
    /\ SubSeq(comments', 1, Len(comments)) = comments

\* C20: no step removes or alters a stored post, rating or comment, the
\* likes, dislikes and comments of a post never decrease, and they stay as
\* they are once the post is Expired.
C20_AppendOnlyFrozenAfterExpiry ==
    [][/\ AppendOnly
       /\ \A pk \in DOMAIN posts :
            /\ get_likes(pk)' >= get_likes(pk)
            /\ get_dislikes(pk)' >= get_dislikes(pk)
            /\ NumComments(pk)' >= NumComments(pk)
            /\ get_status(posts[pk], now) = "Expired" =>
                 /\ get_likes(pk)' = get_likes(pk)
                 /\ get_dislikes(pk)' = get_dislikes(pk)
                 /\ NumComments(pk)' = NumComments(pk)]_vars
====
